---- MODULE Spec2Model ----
(***************************************************************************)
(* Model of fedex_app.py: the FedEx rate checker.                          *)
(*                                                                         *)
(* Representation                                                          *)
(*  - A calendar date is its day ordinal; ordinal 0 is a Monday, so that   *)
(*    date.weekday() is ordinal % 7 (0 = Monday .. 5 = Saturday,           *)
(*    6 = Sunday).                                                         *)
(*  - Money is an integer number of cents.                                 *)
(*  - A JSON value that may be missing is a set: {} when the key is        *)
(*    missing or null (dict.get returns None for both), {v} otherwise.     *)
(*  - The modelled ZIP codes lie on one meridian, where the haversine      *)
(*    formula reduces to R * |dphi|; a latitude is given as the arc length *)
(*    from the first ZIP, in units of 1/10000 mile.                        *)
(***************************************************************************)
EXTENDS Integers, Sequences, FiniteSets, TLC

VARIABLES
    pc,              \* position of the script, or of the function being applied
    product_number,  \* form field "Product Number"
    destination,     \* form field "To ZIP Code"
    today,           \* date.today()
    origin,          \* product["zip"] ({} before the lookup)
    token,           \* result of get_access_token ({} is None)
    response,        \* result of get_list_rates
    rates,           \* result of extract_selected_rates
    ui,              \* the streamlit calls made so far, in order
    table,           \* rows handed to st.table
    auth_calls,      \* POSTs to the OAuth endpoint in this run
    rate_calls,      \* POSTs to the rate-quote endpoint in this run
    service_type,    \* serviceType whose delivery date is resolved
    transit,         \* carrier transit-time mapping serviceType -> commit date
    days,            \* transit days found for service_type ({} is None)
    delivery,        \* resolved estimated delivery
    start_date,      \* add_business_days: start_date
    business_days,   \* add_business_days: business_days
    result,          \* add_business_days: returned date
    previous         \* the date before the last add_business_days step

vars == <<pc, product_number, destination, today, origin, token, response,
          rates, ui, table, auth_calls, rate_calls, service_type, transit,
          days, delivery, start_date, business_days, result, previous>>

flowVars == <<product_number, destination, origin, token, response, rates,
              ui, table, auth_calls, rate_calls>>

deliveryVars == <<service_type, transit, days, delivery>>

bdaysVars == <<start_date, business_days, result, previous>>

----------------------------------------------------------------------------
(* Bounds *)

\* longest rateReplyDetails list in a rate response
MaxItems == 2

\* longest ratedShipmentDetails list of one service
MaxDetails == 2

\* largest number of business days added to a start date
MaxBusinessDays == 6

\* date.today() and start dates range over 0..MaxDay (at least one full week)
MaxDay == 7

----------------------------------------------------------------------------
(* Dates *)

weekday(d) == d % 7

IsWeekend(d) == weekday(d) \in {5, 6}

\* date.isoformat(): the ISO text of a date, kept as the date it denotes
isoformat(d) == [text |-> "iso", day |-> d]

ESTIMATE_UNAVAILABLE == [text |-> "Estimate unavailable", day |-> 0]

\* pd.bdate_range(start=..., periods=...): the first `periods` business days
\* on or after start (a weekend start rolls forward to Monday)
RECURSIVE bdate_range(_, _)
bdate_range(start, periods) ==
    IF periods <= 0 THEN <<>>
    ELSE IF IsWeekend(start) THEN bdate_range(start + 1, periods)
    ELSE <<start>> \o bdate_range(start + 1, periods - 1)

add_business_days(start, n) ==
    LET date_range == bdate_range(start, n + 1)
    IN  isoformat(date_range[Len(date_range)])

----------------------------------------------------------------------------
(* Reference data *)

\* rows of "US Zip Codes.csv", indexed by zip
zip_coords ==
    [z \in {"10001", "10002", "10003", "10004", "10005",
            "10006", "10007", "10008", "10009"} |->
        CASE z = "10001" -> [lat |-> 0,        lng |-> 0, state_id |-> "WI"]
          [] z = "10002" -> [lat |-> 1500000,  lng |-> 0, state_id |-> "WI"]
          [] z = "10003" -> [lat |-> 1500001,  lng |-> 0, state_id |-> "IL"]
          [] z = "10004" -> [lat |-> 4500000,  lng |-> 0, state_id |-> "IL"]
          [] z = "10005" -> [lat |-> 4500001,  lng |-> 0, state_id |-> "MO"]
          [] z = "10006" -> [lat |-> 10000000, lng |-> 0, state_id |-> "TX"]
          [] z = "10007" -> [lat |-> 10000001, lng |-> 0, state_id |-> "TX"]
          [] z = "10008" -> [lat |-> 20000000, lng |-> 0, state_id |-> "CA"]
          [] z = "10009" -> [lat |-> 20000001, lng |-> 0, state_id |-> "CA"]]

\* a ZIP code that "US Zip Codes.csv" does not list
UnlistedZip == "99999"

Zips == DOMAIN zip_coords \cup {UnlistedZip}

\* rows of "TEST SAMPLE All Products Shipping Info.csv", indexed by
\* Product Number; the second product ships from a ZIP the ZIP table lacks
product_data ==
    [p \in {"0-00004", "0-00005", "0-00006"} |->
        CASE p = "0-00004" -> [SupplierCode |-> "S1", zip |-> "10001"]
          [] p = "0-00005" -> [SupplierCode |-> "S2", zip |-> UnlistedZip]
          [] p = "0-00006" -> [SupplierCode |-> "S3", zip |-> "10006"]]

\* what the user may type into the "Product Number" field
ProductInputs == {"0-00004", " 0-00004 ", "0-00005", "0-00006", "9-99999"}

\* str.strip() on the inputs above
strip(s) == IF s = " 0-00004 " THEN "0-00004" ELSE s

----------------------------------------------------------------------------
(* Geo distance estimator *)

Abs(x) == IF x < 0 THEN -x ELSE x

\* great-circle distance in 1/10000 mile; on one meridian dlambda = 0 and
\* the formula is R * |dphi|, which is the difference of the arc lengths
haversine(lat1, lon1, lat2, lon2) == Abs(lat2 - lat1)

\* one mile, in the unit of haversine
Mile == 10000

\* the buckets with their upper bounds excluded
estimate_ground_transit_days_exclusive(origin_zip, dest_zip) ==
    IF origin_zip \notin DOMAIN zip_coords \/ dest_zip \notin DOMAIN zip_coords
    THEN 5
    ELSE LET o == zip_coords[origin_zip]
             d == zip_coords[dest_zip]
             dist == haversine(o.lat, o.lng, d.lat, d.lng)
         IN  IF dist < 150 * Mile THEN 1
             ELSE IF dist < 450 * Mile THEN 2
             ELSE IF dist < 1000 * Mile THEN 3
             ELSE IF dist < 2000 * Mile THEN 4
             ELSE 5

estimate_ground_transit_days(origin_zip, dest_zip) ==
    IF origin_zip \notin DOMAIN zip_coords \/ dest_zip \notin DOMAIN zip_coords
    THEN 5
    ELSE LET o == zip_coords[origin_zip]
             d == zip_coords[dest_zip]
             dist == haversine(o.lat, o.lng, d.lat, d.lng)
         IN  IF dist <= 150 * Mile THEN 1
             ELSE IF dist <= 450 * Mile THEN 2
             ELSE IF dist <= 1000 * Mile THEN 3
             ELSE IF dist <= 2000 * Mile THEN 4
             ELSE 5

----------------------------------------------------------------------------
(* Rate response normalizer *)

MARKUP_PERCENT == 10

\* the value of a one-element set
The(s) == CHOOSE x \in s : TRUE

fixed_days_by_service ==
    [s \in {"FIRST_OVERNIGHT", "PRIORITY_OVERNIGHT", "STANDARD_OVERNIGHT",
            "FEDEX_2_DAY_AM", "FEDEX_2_DAY", "FEDEX_EXPRESS_SAVER"} |->
        CASE s \in {"FIRST_OVERNIGHT", "PRIORITY_OVERNIGHT",
                    "STANDARD_OVERNIGHT"} -> 1
          [] s \in {"FEDEX_2_DAY_AM", "FEDEX_2_DAY"} -> 2
          [] s = "FEDEX_EXPRESS_SAVER" -> 3]

\* A charge value of the response.  shape is "none" (key missing or null),
\* "empty" ({}), "dict" (an object with at least one key), "num" (a bare
\* number) or "text" (any other JSON value, here a non-empty string)
NoCharge == [shape |-> "none", amount |-> {}, currency |-> {}]

EmptyCharge == [shape |-> "empty", amount |-> {}, currency |-> {}]

TextCharge == [shape |-> "text", amount |-> {}, currency |-> {}]

NumCharge(n) == [shape |-> "num", amount |-> {n}, currency |-> {}]

DictCharge(a, c) == [shape |-> "dict", amount |-> a, currency |-> c]

\* Python truth value of a charge: None, {} and 0 are false
charge_truthy(charge) ==
    CASE charge.shape = "dict" -> TRUE
      [] charge.shape = "text" -> TRUE
      [] charge.shape = "num"  -> charge.amount # {0}
      [] OTHER -> FALSE

\* the top-level field only, without the fallback
net_charge_top_only(detail) == detail.totalNetFedExCharge

\* lines 166-169: the top-level field, else the one of shipmentRateDetail
net_charge(detail) ==
    IF charge_truthy(detail.totalNetFedExCharge)
    THEN detail.totalNetFedExCharge
    ELSE IF detail.shipmentRateDetail = {} THEN NoCharge
         ELSE The(detail.shipmentRateDetail).totalNetFedExCharge

\* lines 171-179
charge_amount(charge) ==
    IF charge.shape \in {"dict", "empty", "num"} THEN charge.amount ELSE {}

charge_currency(charge) ==
    IF charge.shape \in {"dict", "empty"} THEN charge.currency
    ELSE IF charge.shape = "num" THEN {"USD"}
    ELSE {}

\* Python truth value of an amount (None and 0 are false) and of a
\* currency (None and "" are false)
amount_truthy(amount) == amount # {} /\ amount # {0}

currency_truthy(currency) == currency # {} /\ currency # {""}

\* the marked-up price cut off after the cent instead of rounded
marked_up_price_truncated(amount) ==
    (amount * (100 + MARKUP_PERCENT)) \div 100

\* round(amount * (1 + MARKUP_PERCENT), 2), in cents: the nearest cent.
\* Amounts whose marked-up value lies exactly between two cents (cents
\* ending in 5) are decided by the binary representation and are not in
\* the modelled inputs.
marked_up_price(amount) == (amount * (100 + MARKUP_PERCENT) + 50) \div 100

\* f"{amount} {currency}", kept as the pair it formats
format_rate(amount, currency) == <<amount, currency>>

\* line 155
item_service_type(item) ==
    IF item.serviceType = {} THEN "UNKNOWN" ELSE The(item.serviceType)

\* line 156
item_service_name(item) ==
    IF item.serviceName = {} \/ item.serviceName = {""}
    THEN item_service_type(item)
    ELSE The(item.serviceName)

\* the fixed table consulted for every service, FEDEX_GROUND included
transit_days_table_only(st, origin_zip, dest_zip) ==
    IF st \in DOMAIN fixed_days_by_service
    THEN {fixed_days_by_service[st]}
    ELSE {}

\* lines 158-161
transit_days(st, origin_zip, dest_zip) ==
    IF st = "FEDEX_GROUND"
    THEN {estimate_ground_transit_days(origin_zip, dest_zip)}
    ELSE IF st \in DOMAIN fixed_days_by_service
         THEN {fixed_days_by_service[st]}
         ELSE {}

\* line 163
delivery_date(d, day) ==
    IF d # {} /\ d # {0}
    THEN add_business_days(day, The(d))
    ELSE ESTIMATE_UNAVAILABLE

\* lines 165-188 for one sub-entry: the records it appends
detail_records(detail, service_name, date) ==
    LET charge   == net_charge(detail)
        amount   == charge_amount(charge)
        currency == charge_currency(charge)
    IN  IF amount_truthy(amount) /\ currency_truthy(currency)
        THEN << ("Service" :> service_name)
                @@ ("List Rate" :> format_rate(The(amount), The(currency)))
                @@ ("DS Rate" :> format_rate(marked_up_price(The(amount)),
                                              The(currency)))
                @@ ("Estimated Delivery" :> date) >>
        ELSE <<>>

RECURSIVE details_records(_, _, _)
details_records(details, service_name, date) ==
    IF details = <<>> THEN <<>>
    ELSE detail_records(Head(details), service_name, date)
         \o details_records(Tail(details), service_name, date)

\* lines 154-188 for one service entry
item_records(item, origin_zip, dest_zip, day) ==
    LET st == item_service_type(item)
    IN  details_records(item.ratedShipmentDetails, item_service_name(item),
                        delivery_date(transit_days(st, origin_zip, dest_zip),
                                      day))

RECURSIVE items_records(_, _, _, _)
items_records(items, origin_zip, dest_zip, day) ==
    IF items = <<>> THEN <<>>
    ELSE item_records(Head(items), origin_zip, dest_zip, day)
         \o items_records(Tail(items), origin_zip, dest_zip, day)

\* day is date.today()
extract_selected_rates(resp, origin_zip, dest_zip, day) ==
    items_records(resp.rateReplyDetails, origin_zip, dest_zip, day)

----------------------------------------------------------------------------
(* Carrier calls *)

\* all sequences over S of length at most n
BoundedSeq(S, n) == UNION {[1..k -> S] : k \in 0..n}

Detail(top, nested) ==
    [totalNetFedExCharge |-> top, shipmentRateDetail |-> nested]

Nested(charge) == {[totalNetFedExCharge |-> charge]}

\* what the OAuth endpoint may answer: a transport error, a non-2xx status,
\* a 2xx body without access_token, one with an empty access_token, a token
AuthOutcomes == {"transport_error", "http_error", "no_token", "empty_token",
                 "token"}

\* lines 51-57: the returned token; the exceptions return None
access_token_of(outcome) ==
    CASE outcome = "token"       -> {"bearer"}
      [] outcome = "empty_token" -> {""}
      [] OTHER                   -> {}

\* a token test that only rules out None
token_not_none(t) == t # {}

\* Python truth value of a token
token_truthy(t) == t # {} /\ t # {""}

\* service entries of the rate responses of the whole flow
FlowItems ==
    { [serviceType |-> {"FEDEX_GROUND"}, serviceName |-> {"FedEx Ground"},
       ratedShipmentDetails |->
           << Detail(DictCharge({1200}, {"USD"}), {}) >>],
      [serviceType |-> {"STANDARD_OVERNIGHT"},
       serviceName |-> {"Standard Overnight"},
       ratedShipmentDetails |->
           << Detail(DictCharge({4500}, {"USD"}), {}),
              Detail(DictCharge({9999}, {}), {}) >>],
      [serviceType |-> {"FEDEX_2_DAY"}, serviceName |-> {},
       ratedShipmentDetails |->
           << Detail(NoCharge, Nested(NumCharge(3000))) >>],
      [serviceType |-> {"SMART_POST"}, serviceName |-> {"Smart Post"},
       ratedShipmentDetails |-> << Detail(NoCharge, {}) >>] }

FlowAlerts ==
    { <<>>,
      << [code |-> {"RATE.NOTE"}, message |-> {"Rates are estimates."}],
         [code |-> {}, message |-> {"Saturday pickup is unavailable."}] >> }

\* 2xx bodies of the rate-quote endpoint; a missing "output",
\* "rateReplyDetails" or "alerts" key reads as the empty list
FlowResponses ==
    { [error |-> {}, rateReplyDetails |-> items, alerts |-> alerts] :
        items \in BoundedSeq(FlowItems, MaxItems), alerts \in FlowAlerts }

\* lines 135-136 and 88: the error dictionaries
ApiRequestFailed ==
    [error |-> {"API request failed"}, rateReplyDetails |-> <<>>,
     alerts |-> <<>>]

UnableToGetToken ==
    [error |-> {"Unable to get access token."}, rateReplyDetails |-> <<>>,
     alerts |-> <<>>]

----------------------------------------------------------------------------
(* Presentation *)

Say(kind, text) == [kind |-> kind, text |-> text]

ProductNotFound(p) ==
    Say("error", <<"Product number '", p, "' not found in product catalog.">>)

AuthFailed == Say("error", <<"Failed to get FedEx access token.">>)

OAuthError == Say("error", <<"OAuth error">>)

\* pd.DataFrame(rates).columns, for a non-empty list of records
columns(rts) == DOMAIN rts[1]

\* line 229: the number read from the "Marked Up Rate" text
numeric(rec) == rec["Marked Up Rate"][1]

\* line 230: df.sort_values(by="Numeric"), as a stable insertion sort
RECURSIVE insert_sorted(_, _)
insert_sorted(rec, sorted) ==
    IF sorted = <<>> THEN <<rec>>
    ELSE IF numeric(Head(sorted)) <= numeric(rec)
         THEN <<Head(sorted)>> \o insert_sorted(rec, Tail(sorted))
         ELSE <<rec>> \o sorted

RECURSIVE sort_values(_)
sort_values(rts) ==
    IF rts = <<>> THEN <<>>
    ELSE insert_sorted(rts[Len(rts)], sort_values(SubSeq(rts, 1, Len(rts) - 1)))

\* str() of an optional text inside an f-string: None prints as "None"
fmt(x) == IF x = {} THEN "None" ELSE The(x)

\* lines 235-241
show_alerts(resp) ==
    IF resp.alerts = <<>> THEN <<>>
    ELSE << Say("info", <<"FedEx API Alerts:">>) >>
         \o [i \in 1..Len(resp.alerts) |->
                Say("write", <<"- (", fmt(resp.alerts[i].code), ") ",
                               fmt(resp.alerts[i].message)>>)]

\* lines 243-248
show_response == << Say("json", <<"See full FedEx API response">>) >>

\* lines 222-253: what the script shows once get_list_rates has returned.
\* done is FALSE when a KeyError leaves the try block.
show_rates(resp, rts, p) ==
    IF resp.error # {}
    THEN [ui |-> << Say("error", <<The(resp.error)>>) >>, table |-> <<>>]
    ELSE IF rts = <<>>
    THEN [ui |-> << Say("warning",
                    <<"No matching list rates returned for the specified inputs.">>) >>
                 \o show_alerts(resp) \o show_response,
          table |-> <<>>]
    ELSE IF "Marked Up Rate" \notin columns(rts)
    THEN [ui |-> << Say("success", <<"Here are the available list rates:">>),
                    ProductNotFound(p) >>,
          table |-> <<>>]
    ELSE [ui |-> << Say("success", <<"Here are the available list rates:">>),
                    Say("table", <<"Service">>) >>
                 \o show_alerts(resp) \o show_response,
          table |-> sort_values(rts)]

----------------------------------------------------------------------------
(* The submitted flow, lines 208-253 *)

NoDelivery ==
    /\ service_type = "UNKNOWN"
    /\ transit = <<>>
    /\ days = {}
    /\ delivery = ESTIMATE_UNAVAILABLE

NoBDays ==
    /\ start_date = 0
    /\ business_days = 1
    /\ result = {}
    /\ previous = 0

Init ==
    /\ pc = "form"
    /\ product_number = ""
    /\ destination = ""
    /\ today = 0
    /\ origin = {}
    /\ token = {}
    /\ response = {}
    /\ rates = <<>>
    /\ ui = <<>>
    /\ table = <<>>
    /\ auth_calls = 0
    /\ rate_calls = 0
    /\ NoDelivery
    /\ NoBDays

\* "Get Rates" is pressed: the script runs again from the top, looks the
\* product and the origin state up (lines 210-217) and, when both are
\* found, goes on to call get_access_token
Submit(p, dest, day) ==
    /\ pc \in {"form", "done"}
    /\ product_number' = p
    /\ destination' = dest
    /\ today' = day
    /\ token' = {}
    /\ response' = {}
    /\ rates' = <<>>
    /\ table' = <<>>
    /\ auth_calls' = 0
    /\ rate_calls' = 0
    /\ IF strip(p) \notin DOMAIN product_data
       THEN /\ origin' = {}
            /\ ui' = << ProductNotFound(p) >>
            /\ pc' = "done"
       ELSE LET zip == product_data[strip(p)].zip
            IN  /\ origin' = {zip}
                /\ IF zip \notin DOMAIN zip_coords
                   THEN /\ ui' = << ProductNotFound(p) >>
                        /\ pc' = "done"
                   ELSE /\ ui' = <<>>
                        /\ pc' = "get_access_token"
    /\ UNCHANGED <<deliveryVars, bdaysVars>>

\* lines 219-220 and 249-250: the OAuth call returns
get_access_token(outcome) ==
    /\ pc = "get_access_token"
    /\ auth_calls' = auth_calls + 1
    /\ token' = access_token_of(outcome)
    /\ LET shown == IF outcome \in {"transport_error", "http_error"}
                    THEN ui \o << OAuthError >> ELSE ui
       IN  IF token_truthy(token')
           THEN /\ ui' = shown
                /\ pc' = "get_list_rates"
           ELSE /\ ui' = shown \o << AuthFailed >>
                /\ pc' = "done"
    /\ UNCHANGED <<product_number, destination, today, origin, response,
                   rates, table, rate_calls, deliveryVars, bdaysVars>>

\* lines 221-248 and 252-253: the rate-quote call returns resp, the rates
\* are extracted and everything is shown
get_list_rates(resp) ==
    /\ pc = "get_list_rates"
    /\ LET answer == IF token_truthy(token) THEN resp ELSE UnableToGetToken
           rts == IF answer.error # {} THEN <<>>
                  ELSE extract_selected_rates(answer, The(origin),
                                              destination, today)
           shown == show_rates(answer, rts, product_number)
       IN  /\ rate_calls' = IF token_truthy(token) THEN rate_calls + 1
                            ELSE rate_calls
           /\ response' = {answer}
           /\ rates' = rts
           /\ ui' = ui \o shown.ui
           /\ table' = shown.table
    /\ pc' = "done"
    /\ UNCHANGED <<product_number, destination, today, origin, token,
                   auth_calls, deliveryVars, bdaysVars>>

\* destination ZIP codes the user may type
DestinationInputs == {"10001", "10003", "10006", "10009", UnlistedZip}

Next ==
    \/ \E p \in ProductInputs, dest \in DestinationInputs, day \in 0..MaxDay :
          Submit(p, dest, day)
    \/ \E outcome \in AuthOutcomes : get_access_token(outcome)
    \/ \E resp \in FlowResponses \cup {ApiRequestFailed} : get_list_rates(resp)

Spec == Init /\ [][Next]_vars

----------------------------------------------------------------------------
(* extract_selected_rates on its own, lines 142-189 *)

\* values of a totalNetFedExCharge field
ExtractCharges ==
    { NoCharge, EmptyCharge, TextCharge,
      NumCharge(0), NumCharge(4500), NumCharge(10000),
      DictCharge({}, {}), DictCharge({}, {"USD"}), DictCharge({0}, {"USD"}),
      DictCharge({9999}, {}), DictCharge({9999}, {""}),
      DictCharge({9999}, {"USD"}), DictCharge({9999}, {"CAD"}) }

\* values of a shipmentRateDetail field: missing, or holding a charge
ExtractNested ==
    { {}, Nested(DictCharge({1200}, {"CAD"})), Nested(NumCharge(3000)) }

ExtractDetails ==
    { Detail(top, nested) : top \in ExtractCharges, nested \in ExtractNested }

\* responses with one service entry
ExtractResponses ==
    { [error |-> {}, alerts |-> <<>>,
       rateReplyDetails |->
           << [serviceType |-> svc.serviceType, serviceName |-> svc.serviceName,
               ratedShipmentDetails |-> details] >>] :
        svc \in { [serviceType |-> {"FEDEX_GROUND"},
                   serviceName |-> {"FedEx Ground"}],
                  [serviceType |-> {"STANDARD_OVERNIGHT"},
                   serviceName |-> {}] },
        details \in BoundedSeq(ExtractDetails, MaxDetails) }

InitExtract ==
    /\ pc = "extract"
    /\ product_number = "0-00004"
    /\ origin = {product_data[product_number].zip}
    /\ destination = "10006"
    /\ today \in {4, 5}
    /\ token = {"bearer"}
    /\ response \in { {r} : r \in ExtractResponses }
    /\ rates = <<>>
    /\ ui = <<>>
    /\ table = <<>>
    /\ auth_calls = 1
    /\ rate_calls = 1
    /\ NoDelivery
    /\ NoBDays

Extract ==
    /\ pc = "extract"
    /\ rates' = extract_selected_rates(The(response), The(origin),
                                       destination, today)
    /\ pc' = "extracted"
    /\ UNCHANGED <<product_number, destination, today, origin, token,
                   response, ui, table, auth_calls, rate_calls,
                   deliveryVars, bdaysVars>>

NextExtract == Extract

SpecExtract == InitExtract /\ [][NextExtract]_vars

----------------------------------------------------------------------------
(* Delivery date of one service, lines 155-163, and the ground estimate *)

ServiceTypes ==
    DOMAIN fixed_days_by_service \cup {"FEDEX_GROUND", "SMART_POST", "UNKNOWN"}

\* Transit Time Client: results of getTransitTimes, a mapping from
\* serviceType to commit date; the empty mapping when the lookup fails
TransitMaps ==
    { <<>>,
      ("FEDEX_GROUND" :> isoformat(2)),
      ("STANDARD_OVERNIGHT" :> isoformat(3)) @@ ("SMART_POST" :> isoformat(9)),
      ("FEDEX_2_DAY" :> isoformat(1)) @@ ("FEDEX_GROUND" :> isoformat(4)) }

\* Rate Response Normalizer, step 2: the carrier's commit date when the
\* mapping has one for the service, else the date of lines 158-163
resolve_estimated_delivery(commitments, st, origin_zip, dest_zip, day) ==
    IF st \in DOMAIN commitments
    THEN commitments[st]
    ELSE delivery_date(transit_days(st, origin_zip, dest_zip), day)

InitDelivery ==
    /\ pc = "service"
    /\ service_type \in ServiceTypes
    /\ transit \in TransitMaps
    /\ origin \in { {z} : z \in Zips }
    /\ destination \in Zips
    /\ today \in 0..MaxDay
    /\ days = {}
    /\ delivery = ESTIMATE_UNAVAILABLE
    /\ product_number = ""
    /\ token = {}
    /\ response = {}
    /\ rates = <<>>
    /\ ui = <<>>
    /\ table = <<>>
    /\ auth_calls = 0
    /\ rate_calls = 0
    /\ NoBDays

\* estimate_ground_transit_days(origin, destination) is called
EstimateGround ==
    /\ pc = "service"
    /\ days' = {estimate_ground_transit_days(The(origin), destination)}
    /\ pc' = "estimated"
    /\ UNCHANGED <<service_type, transit, delivery, product_number,
                   destination, today, origin, token, response, rates, ui,
                   table, auth_calls, rate_calls, bdaysVars>>

\* the delivery date of the service entry is resolved
ResolveDelivery ==
    /\ pc = "service"
    /\ days' = transit_days(service_type, The(origin), destination)
    /\ delivery' = resolve_estimated_delivery(transit, service_type,
                                              The(origin), destination, today)
    /\ pc' = "resolved"
    /\ UNCHANGED <<service_type, transit, product_number, destination, today,
                   origin, token, response, rates, ui, table, auth_calls,
                   rate_calls, bdaysVars>>

NextDelivery == EstimateGround \/ ResolveDelivery

SpecDelivery == InitDelivery /\ [][NextDelivery]_vars

----------------------------------------------------------------------------
(* add_business_days on its own, lines 138-140 *)

InitBDays ==
    /\ pc = "call"
    /\ start_date \in 0..MaxDay
    /\ business_days \in 1..MaxBusinessDays
    /\ result = {}
    /\ previous = start_date
    /\ today = 0
    /\ product_number = ""
    /\ destination = ""
    /\ origin = {}
    /\ token = {}
    /\ response = {}
    /\ rates = <<>>
    /\ ui = <<>>
    /\ table = <<>>
    /\ auth_calls = 0
    /\ rate_calls = 0
    /\ NoDelivery

\* add_business_days(start_date, business_days) returns
AddBusinessDays ==
    /\ pc = "call"
    /\ result' = {add_business_days(start_date, business_days)}
    /\ pc' = "returned"
    /\ UNCHANGED <<start_date, business_days, previous, flowVars, today,
                   deliveryVars>>

\* one more business day is added to the date returned last
AddOneMore ==
    /\ pc \in {"returned", "stepped"}
    /\ business_days < MaxBusinessDays
    /\ previous' = The(result).day
    /\ result' = {add_business_days(The(result).day, 1)}
    /\ business_days' = business_days + 1
    /\ pc' = "stepped"
    /\ UNCHANGED <<start_date, flowVars, today, deliveryVars>>

NextBDays == AddBusinessDays \/ AddOneMore

SpecBDays == InitBDays /\ [][NextBDays]_vars

----------------------------------------------------------------------------
(* Properties *)

Range(seq) == {seq[i] : i \in DOMAIN seq}

Kinds(shown) == {shown[i].kind : i \in DOMAIN shown}

RECURSIVE Flatten(_)
Flatten(seqs) ==
    IF seqs = <<>> THEN <<>> ELSE Head(seqs) \o Flatten(Tail(seqs))

\* C1: when authentication fails (get_access_token returns None or an empty
\* token), the run ends with the auth-failure message, without a rate-quote
\* request, without normalized rates and without a rates table, and the
\* OAuth endpoint has been called exactly once; it is never called twice.
C1_AuthFailureStopsFlow ==
    /\ auth_calls <= 1
    /\ (auth_calls >= 1 /\ token \in {{}, {""}}) =>
          /\ pc = "done"
          /\ auth_calls = 1
          /\ ui # <<>> /\ ui[Len(ui)] = AuthFailed
          /\ rate_calls = 0
          /\ response = {}
          /\ rates = <<>>
          /\ table = <<>>
          /\ Kinds(ui) \cap {"table", "success", "json"} = {}

C1_Witness ==
    /\ pc = "done"
    /\ auth_calls = 1
    /\ token = {""}
    /\ rate_calls = 0
    /\ AuthFailed \in Range(ui)

\* DS price of a record
Price(rec) == rec["DS Rate"][1]

\* the records of rts in ascending price order, equal prices in rts order
StableByPrice(rts) ==
    LET Before(i, j) == \/ Price(rts[i]) < Price(rts[j])
                        \/ Price(rts[i]) = Price(rts[j]) /\ i < j
        Rank(i) == Cardinality({j \in DOMAIN rts : Before(j, i)}) + 1
    IN  [k \in DOMAIN rts |-> rts[CHOOSE i \in DOMAIN rts : Rank(i) = k]]

\* C2: when the rate request succeeds and normalization yields records, a
\* table is shown that holds all of them in ascending price order, records
\* of equal price in response order.
C2_RatesTableSortedByPrice ==
    (pc = "done" /\ response # {} /\ rates # <<>>) =>
        /\ "table" \in Kinds(ui)
        /\ table = StableByPrice(rates)

\* C9: when the rate request succeeds, the alerts (code and message) and
\* the raw response are shown, with or without records; when it fails, the
\* error text is shown and no records are.
C9_AlertsAndRawResponseShown ==
    (pc = "done" /\ response # {}) =>
        LET resp == The(response)
        IN  IF resp.error = {}
            THEN /\ "json" \in Kinds(ui)
                 /\ \A i \in DOMAIN resp.alerts :
                       Say("write", <<"- (", fmt(resp.alerts[i].code), ") ",
                                      fmt(resp.alerts[i].message)>>)
                           \in Range(ui)
            ELSE /\ Say("error", <<The(resp.error)>>) \in Range(ui)
                 /\ table = <<>>
                 /\ "table" \notin Kinds(ui)

\* C10: a run ends with the "not found in product catalog" message if and
\* only if the submitted product number is not in the product table.
C10_NotFoundOnlyForUnknownProduct ==
    pc = "done" =>
        (ProductNotFound(product_number) \in Range(ui)
            <=> strip(product_number) \notin DOMAIN product_data)

\* the service entries of the response at hand
Items == The(response).rateReplyDetails

\* the date the code attaches to the records of a service entry
ItemDate(item) ==
    delivery_date(transit_days(item_service_type(item), The(origin),
                               destination),
                  today)

\* C3: every sub-entry whose net charge gives an amount (any number, zero
\* included) and a currency yields exactly one record, any other sub-entry
\* yields none, and the records come in response order with the service's
\* name and delivery date.
C3_OneRecordPerResolvedSubEntry ==
    pc = "extracted" =>
        LET Kept(item, detail) ==
                LET charge   == net_charge(detail)
                    amount   == charge_amount(charge)
                    currency == charge_currency(charge)
                IN  IF amount # {} /\ currency \notin {{}, {""}}
                    THEN << <<item_service_name(item),
                              <<The(amount), The(currency)>>,
                              ItemDate(item)>> >>
                    ELSE <<>>
            OfItem(item) ==
                Flatten([j \in DOMAIN item.ratedShipmentDetails |->
                            Kept(item, item.ratedShipmentDetails[j])])
        IN  [i \in DOMAIN rates |->
                <<rates[i]["Service"], rates[i]["List Rate"],
                  rates[i]["Estimated Delivery"]>>]
            = Flatten([i \in DOMAIN Items |-> OfItem(Items[i])])

\* C7: every record carries the list price times 1.10 rounded to the
\* nearest cent, in the currency of the list price: 100.00 gives 110.00,
\* 99.99 gives 109.99 and 45.00 gives 49.50.
C7_MarkupOnEveryRecord ==
    \A i \in DOMAIN rates :
        LET list == rates[i]["List Rate"]
            ds   == rates[i]["DS Rate"]
        IN  /\ ds[2] = list[2]
            /\ Abs(100 * ds[1] - 110 * list[1]) <= 50
            /\ list[1] = 10000 => ds[1] = 11000
            /\ list[1] = 9999 => ds[1] = 10999
            /\ list[1] = 4500 => ds[1] = 4950

C7_Witness ==
    /\ pc = "extracted"
    /\ Len(rates) = 2
    /\ rates[1]["List Rate"] = <<9999, "CAD">>
    /\ rates[1]["DS Rate"] = <<10999, "CAD">>
    /\ rates[2]["List Rate"] = <<4500, "USD">>
    /\ rates[2]["DS Rate"] = <<4950, "USD">>

\* the list rate shown for a charge: a structured charge gives its own
\* amount and currency, a bare number gives itself in USD
ShownCharge(charge) ==
    IF /\ charge.shape = "dict"
       /\ charge.amount \notin {{}, {0}}
       /\ charge.currency \notin {{}, {""}}
    THEN << <<The(charge.amount), The(charge.currency)>> >>
    ELSE IF charge.shape = "num" /\ charge.amount # {0}
    THEN << <<The(charge.amount), "USD">> >>
    ELSE <<>>

NestedCharge(detail) ==
    IF detail.shipmentRateDetail = {} THEN NoCharge
    ELSE The(detail.shipmentRateDetail).totalNetFedExCharge

\* the list rates of the records, in order
ListRates == [i \in DOMAIN rates |-> rates[i]["List Rate"]]

\* the list rates expected when Chosen(detail) is the net charge
ExpectedListRates(Chosen(_)) ==
    Flatten([i \in DOMAIN Items |->
        Flatten([j \in DOMAIN Items[i].ratedShipmentDetails |->
            ShownCharge(Chosen(Items[i].ratedShipmentDetails[j]))])])

\* C8 as stated: the net charge is the top-level totalNetFedExCharge
\* whenever that field is present, and the nested one only otherwise.
C8_TopLevelWhenPresent ==
    pc = "extracted" =>
        LET Chosen(detail) ==
                IF detail.totalNetFedExCharge.shape # "none"
                THEN detail.totalNetFedExCharge
                ELSE NestedCharge(detail)
        IN  ListRates = ExpectedListRates(Chosen)

\* C8, amended: the net charge is the top-level totalNetFedExCharge when
\* that field holds a true value (not null, not {}, not 0), and the nested
\* shipmentRateDetail.totalNetFedExCharge otherwise; a structured charge
\* gives its own amount and currency, a bare number that amount in USD.
C8_TopLevelWhenTruthy ==
    pc = "extracted" =>
        LET top(detail) == detail.totalNetFedExCharge
            Chosen(detail) ==
                IF \/ top(detail).shape \in {"dict", "text"}
                   \/ top(detail).shape = "num" /\ top(detail).amount # {0}
                THEN top(detail)
                ELSE NestedCharge(detail)
        IN  ListRates = ExpectedListRates(Chosen)

\* a present but empty top-level charge gives way to the nested one, and
\* both a nested number and a top-level object are read
C8_Witness ==
    /\ pc = "extracted"
    /\ Len(Items) = 1
    /\ Items[1].ratedShipmentDetails =
          << Detail(EmptyCharge, Nested(NumCharge(3000))),
             Detail(DictCharge({9999}, {"USD"}),
                    Nested(DictCharge({1200}, {"CAD"}))) >>
    /\ ListRates = << <<3000, "USD">>, <<9999, "USD">> >>

\* distance in miles times 10000 between two listed ZIP codes
Distance(a, b) == Abs(zip_coords[a].lat - zip_coords[b].lat)

C5_GroundTransitBuckets ==
    pc = "estimated" =>
        LET o == The(origin)
            d == destination
        IN  /\ Cardinality(days) = 1
            /\ days \subseteq 1..5
            /\ IF o \notin DOMAIN zip_coords \/ d \notin DOMAIN zip_coords
               THEN days = {5}
               ELSE /\ Distance(o, d) <= 1500000 => days = {1}
                    /\ (1500000 < Distance(o, d) /\ Distance(o, d) <= 4500000)
                          => days = {2}
                    /\ (4500000 < Distance(o, d) /\ Distance(o, d) <= 10000000)
                          => days = {3}
                    /\ (10000000 < Distance(o, d) /\ Distance(o, d) <= 20000000)
                          => days = {4}
                    /\ 20000000 < Distance(o, d) => days = {5}
                    /\ \A a, b \in DOMAIN zip_coords :
                          Distance(a, b) <= Distance(o, d) =>
                              estimate_ground_transit_days(a, b) <= The(days)

\* exactly 150 miles apart: one day
C5_Witness ==
    /\ pc = "estimated"
    /\ origin = {"10001"}
    /\ destination = "10002"
    /\ Distance("10001", "10002") = 150 * Mile
    /\ days = {1}

\* C6: the date returned is never a Saturday or Sunday and is exactly
\* business_days business days after start_date, which is not counted, for
\* every start date, weekends included; adding one business day moves the
\* date by 1 to 3 calendar days.
C6_ExactlyNBusinessDaysAfterStart ==
    result # {} =>
        LET r == The(result).day
        IN  /\ ~IsWeekend(r)
            /\ Cardinality({d \in (start_date + 1)..r : ~IsWeekend(d)})
                  = business_days
            /\ pc = "stepped" => r - previous \in 1..3

====
